---- MODULE Spec2Model ----
(***************************************************************************)
(* LenDenWebApp (src/apnakhatabook.py): a personal ledger kept in two      *)
(* SQLite tables, users and records, behind a Streamlit script.            *)
(*                                                                         *)
(* Modelling conventions                                                   *)
(*  - a Python str is a sequence of one-character strings, so that         *)
(*    str.strip() can be computed;                                         *)
(*  - None is the empty sequence and a present value x is <<x>>;           *)
(*  - amounts (REAL columns) are integers, a number of the smallest unit;  *)
(*  - a datetime is [sec, usec]; the stored TEXT "%Y-%m-%d %H:%M:%S" is    *)
(*    modelled by its whole number of seconds (fixed-width fields, so the  *)
(*    order of the text is the order of the seconds);                      *)
(*  - sha256 is modelled as an injective tagging of the password: no two   *)
(*    passwords collide and no digest equals a plaintext.                  *)
(***************************************************************************)
EXTENDS Integers, Sequences, FiniteSets, TLC

VARIABLES
    users,      \* table users: username -> [password, role]
    records,    \* table records: a set of rows, keyed by id
    seq,        \* sqlite_sequence of records (AUTOINCREMENT): largest id ever given
    session,    \* st.session_state of the browser session
    call,       \* the last operation run and its arguments
    ret,        \* what the last operation returned
    hist,       \* history: per (owner, payee), the update_record calls made
                \* since the pair last had no entry
    inflight    \* per script thread, the update_record call it is running:
                \* its arguments and what its SELECT returned

vars == <<users, records, seq, session, call, ret, hist, inflight>>

\* ------------------------------------------------------------------ bounds

\* how many rows the records table is ever given (caps the AUTOINCREMENT counter)
MaxId == 3

\* ------------------------------------------------------------------ values

None == <<>>
Some(x) == <<x>>

AdminName == <<"a", "d", "m", "i", "n">>
AdminPassword == <<"v", "i", "n", "s", "o", "l", "i", "t">>
Bob == <<"b">>
SpaceBob == <<" ", "b">>

PayeeP == <<"p">>
PayeeQ == <<"q">>

Whitespace == {" ", "\t", "\n", "\r"}

RECURSIVE lstrip(_)
lstrip(s) ==
    IF s = <<>> THEN s
    ELSE IF Head(s) \in Whitespace THEN lstrip(Tail(s)) ELSE s

RECURSIVE rstrip(_)
rstrip(s) ==
    IF s = <<>> THEN s
    ELSE IF s[Len(s)] \in Whitespace THEN rstrip(SubSeq(s, 1, Len(s) - 1)) ELSE s

\* str.strip()
strip(s) == rstrip(lstrip(s))

\* datetime.strftime("%Y-%m-%d %H:%M:%S"): the microseconds are dropped
strftime(d) == d.sec

hash_password(password) == <<"sha256:">> \o password

\* ------------------------------------------------------------------ store

Max0(S) == IF S = {} THEN 0 ELSE CHOOSE x \in S : \A y \in S : y <= x

\* the database as a value, for the functions below
DB == [users |-> users, records |-> records, seq |-> seq]

Insert_users(u, username, password, role) ==
    [x \in DOMAIN u \cup {username} |->
        IF x = username THEN [password |-> password, role |-> role] ELSE u[x]]

ensure_admin(db) ==
    IF AdminName \notin DOMAIN db.users
    THEN [db EXCEPT !.users =
            Insert_users(db.users, AdminName, hash_password(AdminPassword), "admin")]
    ELSE IF db.users[AdminName].password = AdminPassword
         THEN [db EXCEPT !.users[AdminName].password = hash_password(AdminPassword)]
         ELSE db

\* (mutant) INSERT OR REPLACE: a taken username is overwritten
add_user_replace(db, username, password) ==
    [db |-> [db EXCEPT !.users =
                Insert_users(db.users, username, hash_password(password), "user")],
     ok |-> TRUE]

\* returns [db, ok]: the INSERT fails with IntegrityError on a taken primary key
add_user(db, username, password) ==
    IF username \in DOMAIN db.users
    THEN [db |-> db, ok |-> FALSE]
    ELSE [db |-> [db EXCEPT !.users =
                    Insert_users(db.users, username, hash_password(password), "user")],
          ok |-> TRUE]

UserRow(db, username) ==
    [username |-> username,
     password |-> db.users[username].password,
     role     |-> db.users[username].role]

\* (mutant) the stored password is compared with the password as typed
verify_user_plaintext(db, username, password) ==
    IF /\ username \in DOMAIN db.users
       /\ db.users[username].password = password
    THEN Some(UserRow(db, username))
    ELSE None

\* c.fetchone(): the row, or None
verify_user(db, username, password) ==
    IF /\ username \in DOMAIN db.users
       /\ db.users[username].password = hash_password(password)
    THEN Some(UserRow(db, username))
    ELSE None

PairRecords(recs, owner, payee) ==
    {r \in recs : r.owner_username = owner /\ r.payee = payee}

\* (mutant) the latest entry by timestamp instead of by id
last_record_by_datetime(recs, owner, payee) ==
    LET S == PairRecords(recs, owner, payee)
    IN  IF S = {} THEN None
        ELSE Some(CHOOSE r \in S : \A o \in S :
                    \/ o.datetime < r.datetime
                    \/ (o.datetime = r.datetime /\ o.id <= r.id))

\* (mutant) ORDER BY id ASC: the first entry of the pair instead of the latest
last_record_first(recs, owner, payee) ==
    LET S == PairRecords(recs, owner, payee)
    IN  IF S = {} THEN None
        ELSE Some(CHOOSE r \in S : \A o \in S : r.id <= o.id)

\* SELECT ... ORDER BY id DESC LIMIT 1
last_record(recs, owner, payee) ==
    LET S == PairRecords(recs, owner, payee)
    IN  IF S = {} THEN None
        ELSE Some(CHOOSE r \in S : \A o \in S : o.id <= r.id)

\* (mutant) no floor at zero
new_total_received_noclamp(prev_total_received, received, paid_out) ==
    prev_total_received + received - paid_out

new_total_received(prev_total_received, received, paid_out) ==
    LET v == prev_total_received + received - paid_out
    IN  IF v < 0 THEN 0 ELSE v

\* (mutant) the paid total restarts at every entry
new_total_paid_reset(prev_total_paid, paid_out) == paid_out

new_total_paid(prev_total_paid, paid_out) == prev_total_paid + paid_out

\* (mutant) INTEGER PRIMARY KEY without AUTOINCREMENT: the largest stored id
\* plus one, so that the id of a deleted last row is given again
next_id_rowid(db) == Max0({r.id : r \in db.records}) + 1

\* (mutant) the id is the number of rows plus one
next_id_count(db) == Cardinality(db.records) + 1

\* id INTEGER PRIMARY KEY AUTOINCREMENT: one more than the largest id ever used
next_id(db) == Max0({db.seq} \cup {r.id : r \in db.records}) + 1

update_record(db, owner, received, paid_out, payee, note, record_datetime, clock) ==
    LET now == IF record_datetime # None
               THEN strftime(record_datetime[1]) ELSE strftime(clock)
        last == last_record(db.records, owner, payee)
        prev_total_received == IF last # None THEN last[1].total_received ELSE 0
        prev_total_paid == IF last # None THEN last[1].total_paid ELSE 0
        row == [id             |-> next_id(db),
                owner_username |-> owner,
                received       |-> received,
                paid_out       |-> paid_out,
                datetime       |-> now,
                payee          |-> payee,
                total_paid     |-> new_total_paid(prev_total_paid, paid_out),
                total_received |->
                    new_total_received(prev_total_received, received, paid_out),
                note           |-> note]
    IN  [db EXCEPT !.records = db.records \cup {row}, !.seq = row.id]

\* lines 86-92 of update_record: the timestamp, the SELECT of the latest entry
\* of the pair and the two totals taken from it, as the frame of the call
update_record_select(db, owner, received, paid_out, payee, note, record_datetime, clock) ==
    LET last == last_record(db.records, owner, payee)
    IN  [pc       |-> "read",
         owner    |-> owner,
         payee    |-> payee,
         received |-> received,
         paid_out |-> paid_out,
         note     |-> note,
         now      |-> IF record_datetime # None
                      THEN strftime(record_datetime[1]) ELSE strftime(clock),
         last_id  |-> IF last # None THEN last[1].id ELSE 0,
         prev_total_received |-> IF last # None THEN last[1].total_received ELSE 0,
         prev_total_paid     |-> IF last # None THEN last[1].total_paid ELSE 0,
         new_id   |-> 0]

\* (mutant) the INSERT reads the latest entry again, in one transaction with it
update_record_insert_reread(db, f) ==
    update_record(db, f.owner, f.received, f.paid_out, f.payee, f.note,
                  Some([sec |-> f.now, usec |-> 0]), [sec |-> f.now, usec |-> 0])

\* lines 94-103 of update_record, for the frame f: the new totals from the
\* totals read before, the INSERT and the commit
update_record_insert(db, f) ==
    LET row == [id             |-> next_id(db),
                owner_username |-> f.owner,
                received       |-> f.received,
                paid_out       |-> f.paid_out,
                datetime       |-> f.now,
                payee          |-> f.payee,
                total_paid     |-> new_total_paid(f.prev_total_paid, f.paid_out),
                total_received |->
                    new_total_received(f.prev_total_received, f.received, f.paid_out),
                note           |-> f.note]
    IN  [db EXCEPT !.records = db.records \cup {row}, !.seq = row.id]

\* (mutant) the running total of the later entries of the pair is recomputed
delete_record_by_id_recompute(db, record_id) ==
    LET gone == {r \in db.records : r.id = record_id}
        Later(r) == {d \in gone : /\ d.owner_username = r.owner_username
                                  /\ d.payee = r.payee
                                  /\ d.id < r.id}
    IN  [db EXCEPT !.records =
            {IF Later(r) = {} THEN r
             ELSE [r EXCEPT !.total_paid = @ - (CHOOSE d \in Later(r) : TRUE).paid_out] :
                r \in db.records \ gone}]

delete_record_by_id(db, record_id) ==
    [db EXCEPT !.records = {r \in db.records : r.id # record_id}]

\* (mutant) WHERE payee=? only: the entries of every owner for that payee name
delete_all_by_payee_name(db, owner, payee) ==
    [db EXCEPT !.records = {r \in db.records : r.payee # payee}]

delete_all_by_payee(db, owner, payee) ==
    [db EXCEPT !.records =
        {r \in db.records : ~(r.owner_username = owner /\ r.payee = payee)}]

\* SELECT SUM(received) and SELECT SUM(paid_out) over the rows S, with
\* "or 0" for the NULL of no rows
RECURSIVE SumReceived(_)
SumReceived(S) ==
    IF S = {} THEN 0
    ELSE LET r == CHOOSE x \in S : TRUE IN r.received + SumReceived(S \ {r})

RECURSIVE SumPaidOut(_)
SumPaidOut(S) ==
    IF S = {} THEN 0
    ELSE LET r == CHOOSE x \in S : TRUE IN r.paid_out + SumPaidOut(S \ {r})

\* My Record: the net balance of the owner over all payees
net_balance(db, owner) ==
    LET S == {r \in db.records : r.owner_username = owner}
    IN  SumReceived(S) - SumPaidOut(S)

\* (mutant) the summary balance floored at zero as the stored one is
payee_summary_floored(db, owner, payee) ==
    LET S == PairRecords(db.records, owner, payee)
    IN  [total_received |-> IF SumReceived(S) - SumPaidOut(S) < 0 THEN 0
                            ELSE SumReceived(S) - SumPaidOut(S),
         total_paid     |-> SumPaidOut(S)]

\* My Record: the summary line of a payee
payee_summary(db, owner, payee) ==
    LET S == PairRecords(db.records, owner, payee)
    IN  [total_received |-> SumReceived(S) - SumPaidOut(S),
         total_paid     |-> SumPaidOut(S)]

get_all_records(db, role) ==
    IF role = "admin" THEN db.records ELSE {}

\* (mutant) the user row is deleted and the records are kept
delete_user_no_cascade(db, username) ==
    [db EXCEPT !.users = [x \in DOMAIN db.users \ {username} |-> db.users[x]]]

delete_user(db, username) ==
    [db EXCEPT
        !.users = [x \in DOMAIN db.users \ {username} |-> db.users[x]],
        !.records = {r \in db.records : r.owner_username # username}]

\* ------------------------------------------------------------------ CSV

\* the orders in which a SELECT may return the rows S under ORDER BY key ASC:
\* the order of rows with equal keys is not defined
Orderings(S) ==
    {s \in [1..Cardinality(S) -> S] :
        \A i, j \in 1..Cardinality(S) : i # j => s[i] # s[j]}

SortedByDatetime(S) ==
    {s \in Orderings(S) :
        \A i, j \in 1..Cardinality(S) : i < j => s[i].datetime <= s[j].datetime}

\* (mutant) the export reads the stored running totals
RECURSIVE CsvRows_stored(_, _, _, _)
CsvRows_stored(payee, recs, total_received, total_paid) ==
    IF recs = <<>> THEN <<>>
    ELSE LET r == Head(recs)
         IN  <<[Payee     |-> payee,
                Received  |-> r.received,
                Paid      |-> r.paid_out,
                Balance   |-> r.total_received,
                TotalPaid |-> r.total_paid,
                Date      |-> r.datetime,
                Note      |-> r.note]>>
             \o CsvRows_stored(payee, Tail(recs), total_received, total_paid)

\* (mutant) the exported balance is floored at zero as the stored one is
RECURSIVE CsvRows_floored(_, _, _, _)
CsvRows_floored(payee, recs, total_received, total_paid) ==
    IF recs = <<>> THEN <<>>
    ELSE LET r == Head(recs)
             v == total_received + (r.received - r.paid_out)
             tr == IF v < 0 THEN 0 ELSE v
             tp == total_paid + r.paid_out
         IN  <<[Payee     |-> payee,
                Received  |-> r.received,
                Paid      |-> r.paid_out,
                Balance   |-> tr,
                TotalPaid |-> tp,
                Date      |-> r.datetime,
                Note      |-> r.note]>>
             \o CsvRows_floored(payee, Tail(recs), tr, tp)

RECURSIVE CsvRows(_, _, _, _)
CsvRows(payee, recs, total_received, total_paid) ==
    IF recs = <<>> THEN <<>>
    ELSE LET r == Head(recs)
             tr == total_received + (r.received - r.paid_out)
             tp == total_paid + r.paid_out
         IN  <<[Payee     |-> payee,
                Received  |-> r.received,
                Paid      |-> r.paid_out,
                Balance   |-> tr,
                TotalPaid |-> tp,
                Date      |-> r.datetime,
                Note      |-> r.note]>>
             \o CsvRows(payee, Tail(recs), tr, tp)

RECURSIVE AllData(_, _)
AllData(payees, sel) ==
    IF payees = <<>> THEN <<>>
    ELSE CsvRows(Head(payees), sel[Head(payees)], 0, 0) \o AllData(Tail(payees), sel)

\* the row lists generate_csv may build: one per order of the GROUP BY result
\* and per order of equal datetimes
generate_csv(db, username) ==
    LET P == {r.payee : r \in {x \in db.records : x.owner_username = username}}
        Sorted(p) == SortedByDatetime(PairRecords(db.records, username, p))
        Sels == {f \in [P -> UNION {Sorted(p) : p \in P}] : \A p \in P : f[p] \in Sorted(p)}
    IN  {AllData(po, f) : po \in Orderings(P), f \in Sels}

\* ------------------------------------------------------------------ history

NoHist == [calls |-> <<>>, intact |-> TRUE, nogap |-> TRUE]

HistOf(h, owner, payee) ==
    IF <<owner, payee>> \in DOMAIN h THEN h[<<owner, payee>>] ELSE NoHist

HistPairs(h, recs) == DOMAIN h \cup {<<r.owner_username, r.payee>> : r \in recs}

\* after an INSERT for (owner, payee)
HistInsert(h, owner, payee, received, paid_out) ==
    [k \in DOMAIN h \cup {<<owner, payee>>} |->
        IF k = <<owner, payee>>
        THEN [HistOf(h, owner, payee) EXCEPT
                !.calls = Append(@, <<received, paid_out>>)]
        ELSE h[k]]

\* after a DELETE that turned the rows old into the rows new
HistDelete(h, old, new) ==
    [k \in {p \in HistPairs(h, old) : PairRecords(new, p[1], p[2]) # {}} |->
        LET before == PairRecords(old, k[1], k[2])
            after == PairRecords(new, k[1], k[2])
            top == Max0({r.id : r \in before})
        IN  IF after = before THEN HistOf(h, k[1], k[2])
            ELSE [calls  |-> HistOf(h, k[1], k[2]).calls,
                  intact |-> FALSE,
                  nogap  |-> /\ HistOf(h, k[1], k[2]).nogap
                             /\ before \ after = {r \in before : r.id = top}]]

\* ------------------------------------------------------------------ results

NoCall ==
    [op |-> "", username |-> <<>>, password |-> <<>>, payee |-> <<>>,
     received |-> 0, paid_out |-> 0, note |-> <<>>, datetime |-> None,
     record_id |-> 0, sid |-> 0]

NoRet == [ok |-> FALSE, row |-> None, rows |-> <<>>, recs |-> {}]

\* st.session_state as lines 185-190 initialise it
NoSession ==
    [logged_in |-> FALSE, username |-> None, role |-> None,
     show_reset |-> FALSE, reset_user |-> None]

\* the browser sessions
SessionIds == {1, 2}

\* the script threads that may run update_record at the same time
Threads == {1, 2}

\* the local variables of update_record in a thread; done: the call returned
NoFrame ==
    [pc |-> "idle", owner |-> <<>>, payee |-> <<>>, received |-> 0, paid_out |-> 0,
     note |-> <<>>, now |-> 0, last_id |-> 0,
     prev_total_received |-> 0, prev_total_paid |-> 0, new_id |-> 0]

\* ------------------------------------------------------------------ inputs

Owners == {AdminName, Bob}
Payees == {PayeeP, PayeeQ}
PasswordX == <<"x">>
PasswordSpaceX == <<" ", "x">>
Notes == {<<>>}

\* the (owner, payee) pairs of the ledger calls: two owners with the same payee
\* name, one owner with two payees
LedgerPairs == {<<AdminName, PayeeP>>, <<Bob, PayeeP>>, <<Bob, PayeeQ>>}

\* the (received, paid_out, record_datetime) of the ledger calls: a receipt, a
\* payment larger than it and dated later, and a mixed entry dated as the first
LedgerInputs ==
    {[received |-> 1, paid_out |-> 0, record_datetime |-> [sec |-> 1, usec |-> 5]],
     [received |-> 0, paid_out |-> 2, record_datetime |-> [sec |-> 2, usec |-> 0]],
     [received |-> 2, paid_out |-> 1, record_datetime |-> [sec |-> 1, usec |-> 0]]}

\* ------------------------------------------------------------------ store calls

SetDB(db) ==
    /\ users' = db.users
    /\ records' = db.records
    /\ seq' = db.seq

Call_update_record(owner, received, paid_out, payee, note, record_datetime, clock) ==
    /\ seq < MaxId
    /\ SetDB(update_record(DB, owner, received, paid_out, payee, note,
                           record_datetime, clock))
    /\ hist' = HistInsert(hist, owner, payee, received, paid_out)
    /\ call' = [NoCall EXCEPT !.op = "update_record", !.username = owner,
                    !.payee = payee, !.received = received, !.paid_out = paid_out,
                    !.note = note, !.datetime = record_datetime]
    /\ ret' = NoRet
    /\ UNCHANGED <<session, inflight>>

Call_delete_record_by_id(record_id) ==
    /\ SetDB(delete_record_by_id(DB, record_id))
    /\ hist' = HistDelete(hist, records, records')
    /\ call' = [NoCall EXCEPT !.op = "delete_record_by_id", !.record_id = record_id]
    /\ ret' = NoRet
    /\ UNCHANGED <<session, inflight>>

Call_delete_all_by_payee(owner, payee) ==
    /\ SetDB(delete_all_by_payee(DB, owner, payee))
    /\ hist' = HistDelete(hist, records, records')
    /\ call' = [NoCall EXCEPT !.op = "delete_all_by_payee", !.username = owner,
                    !.payee = payee]
    /\ ret' = NoRet
    /\ UNCHANGED <<session, inflight>>

Call_delete_user(username) ==
    /\ SetDB(delete_user(DB, username))
    /\ hist' = HistDelete(hist, records, records')
    /\ call' = [NoCall EXCEPT !.op = "delete_user", !.username = username]
    /\ ret' = NoRet
    /\ UNCHANGED <<session, inflight>>

Call_generate_csv(username) ==
    /\ \E rows \in generate_csv(DB, username) :
            ret' = [NoRet EXCEPT !.rows = rows]
    /\ call' = [NoCall EXCEPT !.op = "generate_csv", !.username = username]
    /\ UNCHANGED <<users, records, seq, session, hist, inflight>>

\* ------------------------------------------------------------------ Spec

\* the state after the script's first run on a new database file
Init ==
    /\ users = ensure_admin([users |-> <<>>, records |-> {}, seq |-> 0]).users
    /\ records = {}
    /\ seq = 0
    /\ session = [s \in SessionIds |-> NoSession]
    /\ call = NoCall
    /\ ret = NoRet
    /\ hist = <<>>
    /\ inflight = [t \in Threads |-> NoFrame]

\* the ledger operations of the store, called one after the other
Next ==
    \/ \E k \in LedgerPairs, a \in LedgerInputs, n \in Notes :
            Call_update_record(k[1], a.received, a.paid_out, k[2], n,
                               Some(a.record_datetime), a.record_datetime)
    \/ \E i \in 1..seq : Call_delete_record_by_id(i)
    \/ \E k \in LedgerPairs : Call_delete_all_by_payee(k[1], k[2])
    \/ \E o \in Owners : Call_delete_user(o)
    \/ \E o \in Owners : Call_generate_csv(o)

Spec == Init /\ [][Next]_vars

\* ------------------------------------------------------------------ UserSpec

Call_ensure_admin ==
    /\ SetDB(ensure_admin(DB))
    /\ call' = [NoCall EXCEPT !.op = "ensure_admin"]
    /\ ret' = NoRet
    /\ UNCHANGED <<session, hist, inflight>>

Call_add_user(username, password) ==
    /\ SetDB(add_user(DB, username, password).db)
    /\ call' = [NoCall EXCEPT !.op = "add_user", !.username = username,
                    !.password = password]
    /\ ret' = [NoRet EXCEPT !.ok = add_user(DB, username, password).ok]
    /\ UNCHANGED <<session, hist, inflight>>

Call_verify_user(username, password) ==
    /\ call' = [NoCall EXCEPT !.op = "verify_user", !.username = username,
                    !.password = password]
    /\ ret' = [NoRet EXCEPT !.row = verify_user(DB, username, password)]
    /\ UNCHANGED <<users, records, seq, session, hist, inflight>>

UserNames == {AdminName, Bob}
UserPasswords == {AdminPassword, PasswordX, PasswordSpaceX}
UserLedgerInput == [received |-> 1, paid_out |-> 0, record_datetime |-> [sec |-> 1, usec |-> 0]]

\* the account operations of the store, with a few ledger entries to cascade on
UserNext ==
    \/ Call_ensure_admin
    \/ \E u \in UserNames, p \in UserPasswords : Call_add_user(u, p)
    \/ \E u \in UserNames, p \in UserPasswords : Call_verify_user(u, p)
    \/ \E u \in UserNames : Call_delete_user(u)
    \/ \E u \in UserNames :
            Call_update_record(u, UserLedgerInput.received, UserLedgerInput.paid_out,
                               PayeeP, <<>>, Some(UserLedgerInput.record_datetime),
                               UserLedgerInput.record_datetime)

UserSpec == Init /\ [][UserNext]_vars

\* ------------------------------------------------------------------ RaceSpec
\* Every browser session runs the script in a thread of its own, on one
\* database file: between the SELECT of update_record and its INSERT another
\* thread may run. An INSERT with its commit is one step (SQLite serialises
\* the writers).

\* lines 86-92 in thread t
Race_select(t, owner, received, paid_out, payee, note, record_datetime) ==
    /\ inflight[t].pc # "read"
    /\ seq + Cardinality({x \in Threads : inflight[x].pc = "read"}) < MaxId
    /\ inflight' = [inflight EXCEPT ![t] =
            update_record_select(DB, owner, received, paid_out, payee, note,
                                 Some(record_datetime), record_datetime)]
    /\ call' = [NoCall EXCEPT !.op = "update_record_select", !.sid = t,
                    !.username = owner, !.payee = payee, !.received = received,
                    !.paid_out = paid_out, !.note = note,
                    !.datetime = Some(record_datetime)]
    /\ ret' = NoRet
    /\ UNCHANGED <<users, records, seq, session, hist>>

\* lines 94-103 in thread t
Race_insert(t) ==
    /\ inflight[t].pc = "read"
    /\ seq < MaxId
    /\ SetDB(update_record_insert(DB, inflight[t]))
    /\ inflight' = [inflight EXCEPT ![t].pc = "done", ![t].new_id = seq']
    /\ hist' = HistInsert(hist, inflight[t].owner, inflight[t].payee,
                          inflight[t].received, inflight[t].paid_out)
    /\ call' = [NoCall EXCEPT !.op = "update_record_insert", !.sid = t,
                    !.username = inflight[t].owner, !.payee = inflight[t].payee,
                    !.received = inflight[t].received,
                    !.paid_out = inflight[t].paid_out, !.note = inflight[t].note]
    /\ ret' = NoRet
    /\ UNCHANGED session

RacePairs == {<<Bob, PayeeP>>, <<Bob, PayeeQ>>}

RaceInputs ==
    {[received |-> 2, paid_out |-> 1, record_datetime |-> [sec |-> 1, usec |-> 0]],
     [received |-> 0, paid_out |-> 2, record_datetime |-> [sec |-> 2, usec |-> 0]]}

\* update_record calls of two threads, interleaved statement by statement
RaceNext ==
    \E t \in Threads :
        \/ \E k \in RacePairs, a \in RaceInputs :
                Race_select(t, k[1], a.received, a.paid_out, k[2], <<>>,
                            a.record_datetime)
        \/ Race_insert(t)

RaceSpec == Init /\ [][RaceNext]_vars

\* ------------------------------------------------------------------ AppSpec
\* One action is one run of the script for a browser session s: the module
\* level code (tables, ensure_admin) and then the page with one button pressed.

Booted == ensure_admin(DB)

SetSession(s, v) == session' = [session EXCEPT ![s] = v]

\* lines 202-211
Login(s, u, p) ==
    /\ ~session[s].logged_in
    /\ LET user == verify_user(Booted, u, p)
       IN  /\ SetDB(Booted)
           /\ IF user # None
              THEN SetSession(s, [session[s] EXCEPT
                        !.logged_in = TRUE,
                        !.username = Some(user[1].username),
                        !.role = Some(user[1].role)])
              ELSE UNCHANGED session
           /\ ret' = [NoRet EXCEPT !.ok = (user # None), !.row = user]
    /\ call' = [NoCall EXCEPT !.op = "Login", !.sid = s, !.username = u, !.password = p]
    /\ UNCHANGED <<hist, inflight>>

\* lines 214-219
ResetPassword(s, u) ==
    /\ ~session[s].logged_in
    /\ SetDB(Booted)
    /\ IF strip(u) = <<>>
       THEN UNCHANGED session
       ELSE SetSession(s, [session[s] EXCEPT
                !.reset_user = Some(strip(u)), !.show_reset = TRUE])
    /\ call' = [NoCall EXCEPT !.op = "ResetPassword", !.sid = s, !.username = u]
    /\ ret' = [NoRet EXCEPT !.ok = (strip(u) # <<>>)]
    /\ UNCHANGED <<hist, inflight>>

\* UPDATE users SET password=? WHERE username=?
update_password(db, username, password) ==
    IF username \in DOMAIN db.users
    THEN [db EXCEPT !.users[username].password = password]
    ELSE db

\* lines 222-233
SetNewPassword(s, new_pass) ==
    /\ ~session[s].logged_in
    /\ session[s].show_reset
    /\ session[s].reset_user # None
    /\ session[s].reset_user[1] # <<>>
    /\ IF strip(new_pass) = <<>>
       THEN /\ SetDB(Booted)
            /\ UNCHANGED session
       ELSE /\ SetDB(update_password(Booted, session[s].reset_user[1],
                                     hash_password(strip(new_pass))))
            /\ SetSession(s, [session[s] EXCEPT
                    !.show_reset = FALSE, !.reset_user = None])
    /\ call' = [NoCall EXCEPT !.op = "SetNewPassword", !.sid = s,
                    !.username = session[s].reset_user[1], !.password = new_pass]
    /\ ret' = [NoRet EXCEPT !.ok = (strip(new_pass) # <<>>)]
    /\ UNCHANGED <<hist, inflight>>

\* lines 241-245
Signup(s, nu, np) ==
    /\ ~session[s].logged_in
    /\ SetDB(add_user(Booted, nu, np).db)
    /\ call' = [NoCall EXCEPT !.op = "Signup", !.sid = s, !.username = nu, !.password = np]
    /\ ret' = [NoRet EXCEPT !.ok = add_user(Booted, nu, np).ok]
    /\ UNCHANGED <<session, hist, inflight>>

\* lines 255-320 with no button pressed: the page is read and the CSV built
MyRecord(s) ==
    /\ session[s].logged_in
    /\ SetDB(Booted)
    /\ \E rows \in generate_csv(Booted, session[s].username[1]) :
            ret' = [NoRet EXCEPT !.ok = TRUE, !.rows = rows]
    /\ call' = [NoCall EXCEPT !.op = "MyRecord", !.sid = s, !.username = session[s].username[1]]
    /\ UNCHANGED <<session, hist, inflight>>

\* (mutant) a Delete button for every stored entry, whoever owns it
DeleteRecord_any(s, record_id) ==
    /\ session[s].logged_in
    /\ \E r \in Booted.records : r.id = record_id
    /\ SetDB(delete_record_by_id(Booted, record_id))
    /\ hist' = HistDelete(hist, records, records')
    /\ call' = [NoCall EXCEPT !.op = "DeleteRecord", !.sid = s,
                    !.username = session[s].username[1], !.record_id = record_id]
    /\ ret' = NoRet
    /\ UNCHANGED <<session, inflight>>

\* lines 289-306: the history of the session user's payees offers each entry
DeleteRecord(s, record_id) ==
    /\ session[s].logged_in
    /\ \E r \in Booted.records :
            r.id = record_id /\ r.owner_username = session[s].username[1]
    /\ SetDB(delete_record_by_id(Booted, record_id))
    /\ hist' = HistDelete(hist, records, records')
    /\ call' = [NoCall EXCEPT !.op = "DeleteRecord", !.sid = s,
                    !.username = session[s].username[1], !.record_id = record_id]
    /\ ret' = NoRet
    /\ UNCHANGED <<session, inflight>>

\* lines 308-317
DeleteAllForPayee(s, payee) ==
    /\ session[s].logged_in
    /\ PairRecords(Booted.records, session[s].username[1], payee) # {}
    /\ SetDB(delete_all_by_payee(Booted, session[s].username[1], payee))
    /\ hist' = HistDelete(hist, records, records')
    /\ call' = [NoCall EXCEPT !.op = "DeleteAllForPayee", !.sid = s,
                    !.username = session[s].username[1], !.payee = payee]
    /\ ret' = NoRet
    /\ UNCHANGED <<session, inflight>>

\* lines 322-345
UpdateRecord(s, received, paid_out, payee, note, custom_datetime) ==
    /\ session[s].logged_in
    /\ seq < MaxId
    /\ IF strip(payee) = <<>>
       THEN /\ SetDB(Booted)
            /\ UNCHANGED hist
       ELSE /\ SetDB(update_record(Booted, session[s].username[1], received,
                                   paid_out, strip(payee), note,
                                   Some(custom_datetime), custom_datetime))
            /\ hist' = HistInsert(hist, session[s].username[1], strip(payee),
                                  received, paid_out)
    /\ call' = [NoCall EXCEPT !.op = "UpdateRecord", !.sid = s,
                    !.username = session[s].username[1], !.payee = payee,
                    !.received = received, !.paid_out = paid_out, !.note = note,
                    !.datetime = Some(custom_datetime)]
    /\ ret' = [NoRet EXCEPT !.ok = (strip(payee) # <<>>)]
    /\ UNCHANGED <<session, inflight>>

\* (mutant) the page lists the records whatever the role of the session
AllRecords_no_gate(s) ==
    /\ session[s].logged_in
    /\ SetDB(Booted)
    /\ ret' = [NoRet EXCEPT !.ok = TRUE, !.recs = get_all_records(Booted, "admin")]
    /\ call' = [NoCall EXCEPT !.op = "AllRecords", !.sid = s,
                    !.username = session[s].username[1]]
    /\ UNCHANGED <<session, hist, inflight>>

\* lines 347-362
AllRecords(s) ==
    /\ session[s].logged_in
    /\ SetDB(Booted)
    /\ IF session[s].role = Some("admin")
       THEN ret' = [NoRet EXCEPT !.ok = TRUE,
                        !.recs = get_all_records(Booted, session[s].role[1])]
       ELSE ret' = NoRet
    /\ call' = [NoCall EXCEPT !.op = "AllRecords", !.sid = s, !.username = session[s].username[1]]
    /\ UNCHANGED <<session, hist, inflight>>

\* (mutant) a Delete button for every user, "admin" included
DeleteUser_any(s, u) ==
    /\ session[s].logged_in
    /\ session[s].role = Some("admin")
    /\ u \in DOMAIN Booted.users
    /\ SetDB(delete_user(Booted, u))
    /\ hist' = HistDelete(hist, records, records')
    /\ call' = [NoCall EXCEPT !.op = "DeleteUser", !.sid = s, !.username = u]
    /\ ret' = NoRet
    /\ UNCHANGED <<session, inflight>>

\* lines 364-377: a Delete button for every user but "admin", for an admin
DeleteUser(s, u) ==
    /\ session[s].logged_in
    /\ session[s].role = Some("admin")
    /\ u \in DOMAIN Booted.users
    /\ u # AdminName
    /\ SetDB(delete_user(Booted, u))
    /\ hist' = HistDelete(hist, records, records')
    /\ call' = [NoCall EXCEPT !.op = "DeleteUser", !.sid = s, !.username = u]
    /\ ret' = NoRet
    /\ UNCHANGED <<session, inflight>>

\* lines 364-377 with no button pressed: the users are listed for an admin,
\* anyone else gets the warning
ManageUsers(s) ==
    /\ session[s].logged_in
    /\ SetDB(Booted)
    /\ ret' = [NoRet EXCEPT !.ok = (session[s].role = Some("admin"))]
    /\ call' = [NoCall EXCEPT !.op = "ManageUsers", !.sid = s,
                    !.username = session[s].username[1]]
    /\ UNCHANGED <<session, hist, inflight>>

\* lines 379-383
Logout(s) ==
    /\ session[s].logged_in
    /\ SetDB(Booted)
    /\ SetSession(s, [session[s] EXCEPT
            !.logged_in = FALSE, !.username = None, !.role = None])
    /\ call' = [NoCall EXCEPT !.op = "Logout", !.sid = s]
    /\ ret' = NoRet
    /\ UNCHANGED <<hist, inflight>>

AppSessions == {1}
SignupNames == {AdminName, Bob}
TypedNames == {AdminName, Bob, SpaceBob, <<" ">>}
SignupPasswords == {PasswordX, PasswordSpaceX}
TypedPasswords == {AdminPassword, PasswordX, PasswordSpaceX}
NewPasswords == {PasswordX, PasswordSpaceX, <<" ">>}
TypedPayees == {PayeeP, <<" ", "p">>, <<" ">>}
AppLedgerInputs ==
    {[received |-> 2, paid_out |-> 1, record_datetime |-> [sec |-> 1, usec |-> 5]]}

\* the application, used from one browser session
AppNext ==
    \E s \in AppSessions :
        \/ \E u \in TypedNames, p \in TypedPasswords : Login(s, u, p)
        \/ \E u \in TypedNames : ResetPassword(s, u)
        \/ \E p \in NewPasswords : SetNewPassword(s, p)
        \/ \E u \in SignupNames, p \in SignupPasswords : Signup(s, u, p)
        \/ MyRecord(s)
        \/ \E i \in 1..seq : DeleteRecord(s, i)
        \/ \E p \in Payees : DeleteAllForPayee(s, p)
        \/ \E a \in AppLedgerInputs, p \in TypedPayees :
                UpdateRecord(s, a.received, a.paid_out, p, <<>>, a.record_datetime)
        \/ AllRecords(s)
        \/ \E u \in SignupNames : DeleteUser(s, u)
        \/ Logout(s)

AppSpec == Init /\ [][AppNext]_vars

\* ------------------------------------------------------------------ MultiSpec

MultiNames == {AdminName, Bob}
MultiPasswords == {AdminPassword, PasswordX}
MultiPayees == {PayeeP}

\* the application, used from two browser sessions, one script run at a time
MultiNext ==
    \E s \in SessionIds :
        \/ \E u \in MultiNames, p \in MultiPasswords : Login(s, u, p)
        \/ \E u \in MultiNames, p \in MultiPasswords : Signup(s, u, p)
        \/ \E i \in 1..seq : DeleteRecord(s, i)
        \/ \E p \in MultiPayees : DeleteAllForPayee(s, p)
        \/ \E a \in AppLedgerInputs, p \in MultiPayees :
                UpdateRecord(s, a.received, a.paid_out, p, <<>>, a.record_datetime)
        \/ AllRecords(s)
        \/ ManageUsers(s)
        \/ \E u \in MultiNames : DeleteUser(s, u)
        \/ Logout(s)

MultiSpec == Init /\ [][MultiNext]_vars

\* ------------------------------------------------------------------ BootSpec

\* the users table an earlier version of the script left: the admin's password
\* stored as typed
LegacyUsers == Insert_users(<<>>, AdminName, AdminPassword, "admin")

\* the database file before the script has run on it: new (the tables are
\* created empty, lines 14-32), or left by the earlier version
BootInit ==
    /\ \/ users = <<>>
       \/ users = LegacyUsers
    /\ records = {}
    /\ seq = 0
    /\ session = [s \in SessionIds |-> NoSession]
    /\ call = NoCall
    /\ ret = NoRet
    /\ hist = <<>>
    /\ inflight = [t \in Threads |-> NoFrame]

\* the application, from its first run on
BootSpec == BootInit /\ [][AppNext]_vars

\* ------------------------------------------------------------------ claims

Max2(a, b) == IF a < b THEN b ELSE a

\* fold(max(0, acc + r_i - p_i)) over the calls, in call order
RECURSIVE FoldBalance(_, _)
FoldBalance(calls, acc) ==
    IF calls = <<>> THEN acc
    ELSE FoldBalance(Tail(calls), Max2(0, acc + Head(calls)[1] - Head(calls)[2]))

RECURSIVE SumPaid(_)
SumPaid(calls) ==
    IF calls = <<>> THEN 0 ELSE Head(calls)[2] + SumPaid(Tail(calls))

RECURSIVE SumNet(_)
SumNet(calls) ==
    IF calls = <<>> THEN 0 ELSE Head(calls)[1] - Head(calls)[2] + SumNet(Tail(calls))

Front(s) == SubSeq(s, 1, Len(s) - 1)

\* the stored entries of a pair, and the one with the highest id
EntriesOf(owner, payee) ==
    {r \in records : r.owner_username = owner /\ r.payee = payee}

HighestOf(S) == CHOOSE r \in S : \A o \in S : o.id <= r.id

\* C1: for a pair that started with no entries, after N update_record calls and
\* no deletion for the pair in between (whatever the timestamps, whatever is
\* done to other pairs), the highest-id entry of the pair stores
\* running_balance = fold(max(0, acc + received_i - paid_i)) from 0 in call
\* order and running_total_paid = sum of paid_i.
C1_RunningTotalsAreTheFold ==
    \A k \in DOMAIN hist :
        (hist[k].intact /\ hist[k].calls # <<>>) =>
            /\ EntriesOf(k[1], k[2]) # {}
            /\ HighestOf(EntriesOf(k[1], k[2])).total_received
                    = FoldBalance(hist[k].calls, 0)
            /\ HighestOf(EntriesOf(k[1], k[2])).total_paid = SumPaid(hist[k].calls)

\* two calls for one pair, the second backdated before the first, with a call
\* for another pair between them, and a clamp on the way
C1_Witness ==
    \E k \in DOMAIN hist :
        /\ hist[k].intact
        /\ Len(hist[k].calls) = 2
        /\ {r.id : r \in EntriesOf(k[1], k[2])} = {1, 3}
        /\ \E a, b \in EntriesOf(k[1], k[2]) :
                a.id = 1 /\ b.id = 3 /\ b.datetime < a.datetime
        /\ \E r \in records : r.id = 2
        /\ FoldBalance(hist[k].calls, 0) # SumNet(hist[k].calls)

\* the last call of the history h was clamped
ClampedLast(h) ==
    /\ h # <<>>
    /\ FoldBalance(Front(h), 0) + h[Len(h)][1] - h[Len(h)][2] < 0

\* C2: every stored entry has running_balance >= 0; an update_record that finds
\* prior running_balance + received - paid_out < 0 stores exactly 0, and the
\* next update_record of the pair accumulates from that 0.
C2_Floor ==
    [][ /\ \A r \in records' : r.total_received >= 0
        /\ call'.op = "update_record" =>
            \E new \in records' \ records :
                LET prior == EntriesOf(new.owner_username, new.payee)
                    prev == IF prior = {} THEN 0 ELSE HighestOf(prior).total_received
                    h == HistOf(hist, new.owner_username, new.payee)
                IN  /\ prev + new.received - new.paid_out < 0
                            => new.total_received = 0
                    /\ (h.intact /\ ClampedLast(h.calls))
                            => new.total_received
                                    = Max2(0, new.received - new.paid_out)
      ]_vars

\* a pair whose last call but one was clamped and whose last call received more
\* than it paid: the balance restarted from 0
C2_Witness ==
    /\ call.op = "update_record"
    /\ \E k \in DOMAIN hist :
        /\ hist[k].intact
        /\ Len(hist[k].calls) >= 2
        /\ ClampedLast(Front(hist[k].calls))
        /\ k = <<call.username, call.payee>>
        /\ HighestOf(EntriesOf(k[1], k[2])).total_received
                = call.received - call.paid_out
        /\ call.received > call.paid_out
        /\ SumNet(hist[k].calls) < call.received - call.paid_out

\* C7: an update_record call adds exactly one entry, carrying the given owner,
\* payee, received, paid_out, note and timestamp, with an id above every stored
\* id, and changes no other entry and no user.
C7_OneAppend ==
    [][ call'.op = "update_record" =>
            /\ records \subseteq records'
            /\ Cardinality(records' \ records) = 1
            /\ \A new \in records' \ records :
                /\ new.owner_username = call'.username
                /\ new.payee = call'.payee
                /\ new.received = call'.received
                /\ new.paid_out = call'.paid_out
                /\ new.note = call'.note
                /\ call'.datetime # None => new.datetime = call'.datetime[1].sec
                /\ \A r \in records : r.id < new.id
            /\ users' = users
      ]_vars

\* an append for a pair while entries of the same owner with another payee and
\* of another owner with the same payee are stored
C7_Witness ==
    /\ call.op = "update_record"
    /\ Cardinality(records) = 3
    /\ \E a, b, c \in records :
        /\ a.id < c.id /\ b.id < c.id
        /\ a.owner_username = c.owner_username /\ a.payee # c.payee
        /\ b.owner_username # c.owner_username /\ b.payee = c.payee

\* the entry stored immediately before r among the entries S of its pair
ChainStep(S, r) ==
    LET before == {o \in S : o.id < r.id}
        prev_balance == IF before = {} THEN 0 ELSE HighestOf(before).total_received
        prev_paid == IF before = {} THEN 0 ELSE HighestOf(before).total_paid
    IN  /\ r.total_received = Max2(0, prev_balance + r.received - r.paid_out)
        /\ r.total_paid = prev_paid + r.paid_out

StoredPairs == {<<r.owner_username, r.payee>> : r \in records}

\* C8 as stated: in every reachable state, for every pair, every entry derives
\* from the stored entry immediately before it (or from zero).
C8_LedgerInvariant ==
    \A k \in StoredPairs : \A r \in EntriesOf(k[1], k[2]) :
        ChainStep(EntriesOf(k[1], k[2]), r)

\* C8 amended: the same, for every pair from which delete_entry has removed only
\* entries that were the highest-id entry of the pair when removed.
C8_LedgerInvariantWithoutGaps ==
    \A k \in StoredPairs :
        HistOf(hist, k[1], k[2]).nogap =>
            \A r \in EntriesOf(k[1], k[2]) : ChainStep(EntriesOf(k[1], k[2]), r)

\* a pair whose highest entry was deleted and which was then updated again
C8_Witness ==
    /\ call.op = "update_record"
    /\ \E k \in StoredPairs :
        /\ k = <<call.username, call.payee>>
        /\ ~HistOf(hist, k[1], k[2]).intact
        /\ HistOf(hist, k[1], k[2]).nogap
        /\ {r.id : r \in EntriesOf(k[1], k[2])} = {1, 3}

\* the rows of one payee among rows[1..i]
RECURSIVE NetUpTo(_, _, _)
NetUpTo(rows, i, payee) ==
    IF i = 0 THEN 0
    ELSE NetUpTo(rows, i - 1, payee)
            + (IF rows[i].Payee = payee THEN rows[i].Received - rows[i].Paid ELSE 0)

RECURSIVE PaidUpTo(_, _, _)
PaidUpTo(rows, i, payee) ==
    IF i = 0 THEN 0
    ELSE PaidUpTo(rows, i - 1, payee)
            + (IF rows[i].Payee = payee THEN rows[i].Paid ELSE 0)

\* C10: export_csv(owner) emits one row per stored entry of the owner, the rows
\* of a payee in ascending timestamp order, Balance the unclamped prefix sum of
\* received - paid_out and Total Paid the prefix sum of paid_out over the rows
\* of that payee; the store is left unchanged.
C10_ExportRecomputes ==
    [][ call'.op = "generate_csv" =>
            LET rows == ret'.rows
                E == {r \in records : r.owner_username = call'.username}
                n == Len(rows)
            IN  /\ n = Cardinality(E)
                /\ \E m \in [1..n -> E] :
                    /\ \A i, j \in 1..n : i # j => m[i] # m[j]
                    /\ \A i \in 1..n :
                        /\ rows[i].Payee = m[i].payee
                        /\ rows[i].Received = m[i].received
                        /\ rows[i].Paid = m[i].paid_out
                        /\ rows[i].Date = m[i].datetime
                        /\ rows[i].Note = m[i].note
                /\ \A i, j \in 1..n :
                    (i < j /\ rows[i].Payee = rows[j].Payee)
                        => rows[i].Date <= rows[j].Date
                /\ \A i \in 1..n :
                    /\ rows[i].Balance = NetUpTo(rows, i, rows[i].Payee)
                    /\ rows[i].TotalPaid = PaidUpTo(rows, i, rows[i].Payee)
                /\ users' = users /\ records' = records /\ seq' = seq
      ]_vars

\* the export of entries (1, 0) then (0, 2): Balance 1 then -1, while the second
\* entry's stored running_balance is 0
C10_Witness ==
    /\ call.op = "generate_csv"
    /\ Len(ret.rows) = 2
    /\ ret.rows[1].Payee = ret.rows[2].Payee
    /\ ret.rows[1].Balance = 1
    /\ ret.rows[2].Balance = -1
    /\ \E r \in records :
        /\ r.owner_username = call.username
        /\ r.payee = ret.rows[2].Payee
        /\ r.received = 0 /\ r.paid_out = 2
        /\ r.total_received = 0

\* C3: delete_user(u) removes u from users and every entry owned by u; every
\* other user and every entry of another owner is left unchanged.
C3_DeleteUserCascade ==
    [][ call'.op = "delete_user" =>
            /\ DOMAIN users' = DOMAIN users \ {call'.username}
            /\ \A x \in DOMAIN users' : users'[x] = users[x]
            /\ records' = {r \in records : r.owner_username # call'.username}
      ]_vars

\* "admin" and its entry were deleted while bob and bob's entry for the same
\* payee stayed
C3_Witness ==
    /\ call.op = "delete_user"
    /\ call.username = AdminName
    /\ AdminName \notin DOMAIN users
    /\ Bob \in DOMAIN users
    /\ seq = 2
    /\ \E r \in records : records = {r} /\ r.owner_username = Bob /\ r.payee = PayeeP

\* C4: while a username exists, create_user with it returns False whatever the
\* password and changes nothing; for a fresh username it succeeds and stores
\* role "user" and the hash of the password, not the plaintext.
C4_CreateUserRejectsDuplicates ==
    [][ call'.op = "add_user" =>
            IF call'.username \in DOMAIN users
            THEN /\ ret'.ok = FALSE
                 /\ users' = users /\ records' = records /\ seq' = seq
            ELSE /\ ret'.ok = TRUE
                 /\ DOMAIN users' = DOMAIN users \cup {call'.username}
                 /\ \A x \in DOMAIN users : users'[x] = users[x]
                 /\ users'[call'.username].role = "user"
                 /\ users'[call'.username].password = hash_password(call'.password)
                 /\ users'[call'.username].password # call'.password
                 /\ records' = records /\ seq' = seq
      ]_vars

\* a second create_user for bob, with a password other than the stored one,
\* was rejected
C4_Witness ==
    /\ call.op = "add_user"
    /\ call.username = Bob
    /\ ret.ok = FALSE
    /\ Bob \in DOMAIN users
    /\ users[Bob].password # hash_password(call.password)
    /\ users[Bob].role = "user"

\* C5: a login returns a user record exactly when the username exists and the
\* hash of the password typed equals the stored hash; otherwise it returns the
\* one "no match" result and changes neither the store nor the session.
C5_VerifyCredentials ==
    [][ call'.op = "Login" =>
            LET u == call'.username
                matches == /\ u \in DOMAIN users
                           /\ users[u].password = hash_password(call'.password)
            IN  /\ (ret'.row # None) <=> matches
                /\ matches =>
                        ret'.row = Some([username |-> u,
                                         password |-> users[u].password,
                                         role     |-> users[u].role])
                /\ ~matches =>
                        /\ ret'.row = None
                        /\ users' = users /\ records' = records /\ seq' = seq
                        /\ session' = session
      ]_vars

\* a login as the existing user bob with a wrong password found no match
C5_Witness ==
    /\ call.op = "Login"
    /\ call.username = Bob
    /\ Bob \in DOMAIN users
    /\ ret.row = None
    /\ \A s \in SessionIds : ~session[s].logged_in

\* C6 as stated: after a reset of the existing user u with an accepted new
\* password, a login as u with the new password as entered yields u's record
\* with its role unchanged, a login with the old password (when different)
\* yields no match, and no other user changes.
C6_ResetThenLogin ==
    [][ ( /\ call'.op = "SetNewPassword"
          /\ ret'.ok
          /\ call'.username \in DOMAIN users ) =>
            LET u == call'.username
                after == [users |-> users', records |-> records', seq |-> seq']
            IN  /\ verify_user(after, u, call'.password)
                        = Some([username |-> u,
                                password |-> users'[u].password,
                                role     |-> users[u].role])
                /\ \A old \in TypedPasswords :
                        ( /\ old # call'.password
                          /\ verify_user(DB, u, old) # None )
                            => verify_user(after, u, old) = None
                /\ DOMAIN users' = DOMAIN users
                /\ \A x \in DOMAIN users : x # u => users'[x] = users[x]
      ]_vars

\* C9: an entry id present before and after a step has identical fields; an
\* entry appears only by update_record, with an id never used before, and
\* disappears only by one of the three deletions.
C9_EntriesNeverMutated ==
    [][ /\ \A r \in records : \A q \in records' : q.id = r.id => q = r
        /\ seq' >= seq
        /\ \A q \in records' : q.id <= seq'
        /\ \A q \in records' \ records :
                /\ q.id > seq
                /\ \A r \in records : r.id < q.id
                /\ call'.op = "UpdateRecord"
        /\ records \ records' # {} =>
                call'.op \in {"DeleteRecord", "DeleteAllForPayee", "DeleteUser"}
      ]_vars

\* after entry 2 was deleted: entry 1 is stored as it was created, and the
\* next entry got the id 3
C9_Witness ==
    /\ call.op = "UpdateRecord"
    /\ seq = 3
    /\ {r.id : r \in records} = {1, 3}
    /\ \E r \in records : r.id = 1 /\ r.total_received = 1 /\ r.total_paid = 1

\* the stored entry with the id i
EntryById(i) == CHOOSE r \in records : r.id = i

\* two finished calls, a first and b last, for one pair that read the same
\* latest entry
SamePriorRead(a, b) ==
    /\ inflight[a].pc = "done" /\ inflight[b].pc = "done"
    /\ inflight[a].owner = inflight[b].owner
    /\ inflight[a].payee = inflight[b].payee
    /\ inflight[a].last_id = inflight[b].last_id
    /\ inflight[a].new_id < inflight[b].new_id

\* C11: when two update_record calls for one pair have both read the same
\* prior entry before either inserted, the entry inserted last stores the
\* prior totals plus its own amounts only: running_total_paid leaves out the
\* other call's paid_out and running_balance is max(0, prior + its own
\* received - its own paid_out), where each sequential order would have
\* counted the other call's amounts too.
C11_LostUpdate ==
    \A a, b \in Threads :
        SamePriorRead(a, b) =>
            LET first == EntryById(inflight[a].new_id)
                last == EntryById(inflight[b].new_id)
                prior_paid == first.total_paid - first.paid_out
            IN  /\ prior_paid = inflight[b].prev_total_paid
                /\ last.total_paid = prior_paid + last.paid_out
                /\ last.total_received =
                        Max2(0, inflight[b].prev_total_received
                                    + last.received - last.paid_out)
                /\ first.paid_out > 0 =>
                        last.total_paid < prior_paid + first.paid_out + last.paid_out

\* both calls (2, 1) read the same entry; the last entry stores balance 2 and
\* total paid 2, the sequential orders give balance 3 and total paid 3
C11_Witness ==
    \E a, b \in Threads :
        /\ SamePriorRead(a, b)
        /\ inflight[a].last_id = 1
        /\ {r.id : r \in EntriesOf(inflight[a].owner, inflight[a].payee)} = {1, 2, 3}
        /\ EntryById(1).total_received = 1 /\ EntryById(1).total_paid = 1
        /\ EntryById(2).total_received = 2 /\ EntryById(2).total_paid = 2
        /\ EntryById(3).received = 2 /\ EntryById(3).paid_out = 1
        /\ EntryById(3).total_received = 2 /\ EntryById(3).total_paid = 2

\* the users with the role "admin"
Admins(u) == {x \in DOMAIN u : u[x].role = "admin"}

\* C12: after every run of the script, from an empty store on, exactly one
\* user has the role "admin" and it is the user "admin": the bootstrap creates
\* it when absent and rehashes a legacy plaintext credential in place, a signup
\* creates only the role "user" and replaces no user, and no run deletes it.
C12_ExactlyOneAdmin ==
    [][ /\ Admins(users') = {AdminName}
        /\ ( \/ AdminName \notin DOMAIN users
             \/ users[AdminName].password = AdminPassword ) =>
                /\ users'[AdminName] =
                        [password |-> hash_password(AdminPassword), role |-> "admin"]
                /\ DOMAIN users \subseteq DOMAIN users'
        /\ call'.op = "Signup" =>
                /\ \A x \in DOMAIN users' \ DOMAIN users :
                        x # AdminName => users'[x].role = "user"
                /\ \A x \in DOMAIN users :
                        /\ x \in DOMAIN users'
                        /\ x # AdminName => users'[x] = users[x]
                        /\ users'[x].role = users[x].role
        /\ AdminName \in DOMAIN users => users'[AdminName].role = users[AdminName].role
      ]_vars

\* the admin has deleted the user bob on the Manage Users page: the one admin
\* is still "admin", with a hashed credential
C12_Witness ==
    /\ call.op = "DeleteUser"
    /\ call.username = Bob
    /\ Bob \notin DOMAIN users
    /\ Admins(users) = {AdminName}
    /\ users[AdminName].password # AdminPassword
    /\ \E s \in SessionIds : session[s].username = Some(AdminName)

\* the session that ran the last script run had the role "admin"
ByAdmin(sid) == session[sid].logged_in /\ session[sid].role = Some("admin")

\* C13: a user is deleted and all users' records are listed only by a run of a
\* logged-in session with the role "admin"; a session with another role that
\* selects All Records or Manage Users gets no records and changes nothing in
\* the store, and get_all_records with another role returns no records.
C13_AdminOnly ==
    [][ /\ (call'.op = "DeleteUser" \/ DOMAIN users' # DOMAIN users) =>
                /\ call'.op \in {"DeleteUser", "Signup"}
                /\ call'.op = "DeleteUser" => ByAdmin(call'.sid)
                /\ call'.op = "Signup" => DOMAIN users \subseteq DOMAIN users'
        /\ ret'.recs # {} => (call'.op = "AllRecords" /\ ByAdmin(call'.sid))
        /\ ( /\ call'.op \in {"AllRecords", "ManageUsers"}
             /\ ~ByAdmin(call'.sid) ) =>
                /\ ret'.recs = {}
                /\ ~ret'.ok
                /\ users' = users /\ records' = records /\ seq' = seq
        /\ \A role \in {"user", ""} : get_all_records(DB, role) = {}
      ]_vars

\* bob, with the role "user", selected All Records while the store held an
\* entry of "admin" and one of his own: nothing was listed
C13_Witness ==
    /\ call.op = "AllRecords"
    /\ session[call.sid].username = Some(Bob)
    /\ session[call.sid].role = Some("user")
    /\ ret.recs = {}
    /\ \E a, b \in records : a.owner_username = AdminName /\ b.owner_username = Bob

\* C17 as stated: in every reachable state of the application used from
\* several sessions, the owner of every stored entry is an existing user: no
\* entry owned by a deleted user exists while that user is absent, and an
\* account created under a username starts with no entry.
C17_EveryOwnerExists ==
    [][ /\ \A r \in records' : r.owner_username \in DOMAIN users'
        /\ (call'.op = "Signup" /\ ret'.ok) =>
                \A r \in records' : r.owner_username # call'.username
      ]_vars

\* the entries of the owner named by the session sid
OwnedBySession(r, sid) == session[sid].username = Some(r.owner_username)

\* C19: an append, a single-entry deletion and a payee-history wipe run from
\* a session add or remove only entries owned by that session's username; the
\* ledger changes only in runs of a logged-in session; Logout clears
\* logged_in, username and role; and entries of another username are removed
\* by a session only through the admin's delete_user.
C19_SessionIsolation ==
    [][ /\ records' # records =>
                /\ session[call'.sid].logged_in
                /\ call'.op \in {"UpdateRecord", "DeleteRecord",
                                  "DeleteAllForPayee", "DeleteUser"}
        /\ call'.op \in {"UpdateRecord", "DeleteRecord", "DeleteAllForPayee"} =>
                /\ session[call'.sid].logged_in
                /\ \A r \in (records' \ records) \cup (records \ records') :
                        OwnedBySession(r, call'.sid)
        /\ \A r \in records \ records' :
                ~OwnedBySession(r, call'.sid) =>
                    /\ call'.op = "DeleteUser"
                    /\ ByAdmin(call'.sid)
                    /\ r.owner_username = call'.username
        /\ call'.op = "Logout" =>
                /\ ~session'[call'.sid].logged_in
                /\ session'[call'.sid].username = None
                /\ session'[call'.sid].role = None
                /\ \A o \in SessionIds \ {call'.sid} : session'[o] = session[o]
      ]_vars

\* bob deleted an entry of his own while "admin", logged in in the other
\* session, had an entry for the same payee: that entry stayed
C19_Witness ==
    /\ call.op = "DeleteRecord"
    /\ session[call.sid].username = Some(Bob)
    /\ \E o \in SessionIds : session[o].username = Some(AdminName)
    /\ \E r \in records : r.owner_username = AdminName /\ r.id < call.record_id
    /\ \A r \in records : r.owner_username # Bob

\* C14: delete_all_for_payee(owner, payee) removes exactly the entries whose
\* owner and payee both match and changes no other entry and no user; an
\* update_record for a pair with no entry (as the pair is after it) stores
\* running_balance = max(0, received - paid_out) and running_total_paid =
\* paid_out.
C14_DeleteAllForPayee ==
    [][ /\ call'.op = "delete_all_by_payee" =>
                /\ records' = {r \in records :
                        ~(r.owner_username = call'.username /\ r.payee = call'.payee)}
                /\ PairRecords(records', call'.username, call'.payee) = {}
                /\ users' = users
        /\ ( /\ call'.op = "update_record"
             /\ EntriesOf(call'.username, call'.payee) = {} ) =>
                \A new \in records' \ records :
                    /\ new.total_received = Max2(0, call'.received - call'.paid_out)
                    /\ new.total_paid = call'.paid_out
      ]_vars

\* bob's entries for the payee p were removed: bob's entry for q and the entry
\* of "admin" for the payee p stayed
C14_Witness ==
    /\ call.op = "delete_all_by_payee"
    /\ call.username = Bob /\ call.payee = PayeeP
    /\ seq = 3
    /\ \E a, b \in records :
        /\ records = {a, b}
        /\ a.owner_username = Bob /\ a.payee = PayeeQ
        /\ b.owner_username = AdminName /\ b.payee = PayeeP

\* how much the latest running_total_paid of a pair exceeds the paid_out of
\* the entries stored for it: the paid_out of deleted entries that still counts
Excess(S) == IF S = {} THEN 0 ELSE HighestOf(S).total_paid - SumPaidOut(S)

\* C15: delete_entry(id) removes exactly the entry with that id (nothing if
\* there is none) and leaves every other entry as stored; the next
\* update_record derives its totals from the highest-id entry that remains.
\* So the paid_out of a deleted latest entry is no longer in the total that
\* the next update builds on (the remaining latest total is at most the
\* deleted one less its paid_out), while a deleted earlier entry leaves that
\* total as it was, and that total counts every entry stored below it.
C15_DeleteEntry ==
    [][ /\ call'.op = "delete_record_by_id" =>
                /\ records' = {r \in records : r.id # call'.record_id}
                /\ users' = users
                /\ \A d \in records \ records' :
                        LET S == EntriesOf(d.owner_username, d.payee)
                        IN  S \ {d} # {} =>
                                IF d = HighestOf(S)
                                THEN HighestOf(S \ {d}).total_paid + d.paid_out
                                            <= d.total_paid
                                ELSE /\ HighestOf(S \ {d}) = HighestOf(S)
                                     /\ Excess(S \ {d}) >= d.paid_out
        /\ call'.op = "update_record" =>
                \A new \in records' \ records :
                    LET S == EntriesOf(new.owner_username, new.payee)
                        prev_balance == IF S = {} THEN 0 ELSE HighestOf(S).total_received
                        prev_paid == IF S = {} THEN 0 ELSE HighestOf(S).total_paid
                    IN  /\ new.total_received =
                                Max2(0, prev_balance + new.received - new.paid_out)
                        /\ new.total_paid = prev_paid + new.paid_out
      ]_vars

\* entry 1 of a pair was deleted while entry 2 was stored, then the pair was
\* updated: entry 3 still counts the paid_out of entry 1
C15_Witness ==
    /\ call.op = "update_record"
    /\ {r.id : r \in EntriesOf(call.username, call.payee)} = {2, 3}
    /\ records = EntriesOf(call.username, call.payee)
    /\ Excess(records) > 0
    /\ EntryById(3).total_paid
            = EntryById(2).total_paid + EntryById(3).paid_out

\* some call of the history h was clamped
AnyClamp(h) == \E i \in 1..Len(h) : ClampedLast(SubSeq(h, 1, i))

C18_TotalPaidMonotone ==
    \A a, b \in records :
        ( /\ a.owner_username = b.owner_username
          /\ a.payee = b.payee
          /\ a.id < b.id ) => a.total_paid <= b.total_paid

\* entry 2 of a pair was deleted and the pair updated again: the totals of
\* entries 1 and 3 are in order
C18_Witness ==
    /\ call.op = "update_record"
    /\ seq = 3
    /\ \E a, b \in records :
        /\ records = {a, b}
        /\ a.id = 1 /\ b.id = 3
        /\ a.owner_username = b.owner_username /\ a.payee = b.payee
        /\ 0 < a.total_paid /\ a.total_paid < b.total_paid
        /\ Len(HistOf(hist, a.owner_username, a.payee).calls) = 3

\* the index of the last row of a payee in the export
LastRowOf(rows, payee) ==
    Max0({i \in 1..Len(rows) : rows[i].Payee = payee})

RECURSIVE SumLastBalances(_, _)
SumLastBalances(rows, P) ==
    IF P = {} THEN 0
    ELSE LET p == CHOOSE x \in P : TRUE
         IN  rows[LastRowOf(rows, p)].Balance + SumLastBalances(rows, P \ {p})

====
